---- MODULE Spec2Model ----
(***************************************************************************)
(* A model of the chapter notebooks of ML_production_systems_O-REILLY.      *)
(*                                                                         *)
(* Spec      the Jupyter kernel of one notebook: the namespace shared by    *)
(*           its code cells, each cell run statement by statement, in any   *)
(*           order and any number of times, a library call possibly         *)
(*           raising.                                                       *)
(* SpecLF    the two Snorkel labeling functions of chapter 5 applied to a   *)
(*           text.                                                          *)
(* SpecAug   augment() of chapter 5 applied to an image.                    *)
(* SpecData  the label arrays of chapter 5: the cells that bind and read y, *)
(*           y_missing, unlabeled_indices and initial_idx, on their data,   *)
(*           every library call succeeding.                                 *)
(***************************************************************************)
EXTENDS Integers, Sequences, FiniteSets, TLC

VARIABLES
    nb,      \* the notebook whose kernel this is: "ch2" or "ch5"
    ns,      \* the kernel namespace: name -> the cell that bound it, or Unbound
    last,    \* the last cell execution: cell, failing statement, error, reads
    pos,     \* cells run so far when the run is top-to-bottom, no call failing; else -1
    text,    \* SpecLF: x.text, a sequence of characters
    lfOut,   \* SpecLF: per labeling function, the label it returned (<<>> before it ran)
    image,   \* SpecAug: the image passed to augment
    call,    \* SpecAug: the other arguments of augment: height, width, num_channels
    aug,     \* SpecAug: what augment returned, with the random choices it made
    draw,    \* SpecData: i -> whether RandomState(42).rand(n)[i] < 0.8
    mem,     \* SpecData: env, name -> array object; heap, array object -> its elements
    given,   \* SpecData: the labels make_classification returned last
    fit      \* SpecData: the index array and the labels of the last model.fit

kernelVars == <<nb, ns, last, pos>>
lfVars == <<text, lfOut>>
augVars == <<image, call, aug>>
dataVars == <<draw, mem, given, fit>>
vars == <<kernelVars, lfVars, augVars, dataVars>>

Unbound == "unbound"

(***************************************************************************)
(* A statement of a code cell: the kernel names it reads, in evaluation     *)
(* order before anything is bound; the names it binds; whether it calls     *)
(* into a library (an import included) and so can raise.                    *)
(***************************************************************************)
Stmt(reads, writes, raises) == [reads |-> reads, writes |-> writes, raises |-> raises]

\* chapter 2, "# Install TFDV": a shell escape, no Python name involved
Ch2PipCell ==
    << Stmt({}, {}, FALSE) >>

\* chapter 2, "# Generate statistics from a CSV file"
Ch2CsvCell ==
    << Stmt({}, {"tfdv"}, TRUE),                      \* import tensorflow_data_validation as tfdv
       Stmt({"tfdv"}, {"stats"}, TRUE) >>             \* stats = tfdv.generate_statistics_from_csv(...)

\* chapter 2, "# Generate statistics from TFRecord format"
Ch2TfrecordCell ==
    << Stmt({"tfdv"}, {"stats"}, TRUE),               \* stats = tfdv.generate_statistics_from_tfrecord(...)
       Stmt({"tfdv", "stats"}, {}, TRUE) >>           \* tfdv.visualize_statistics(stats)

\* chapter 2, "# Print histogram of string features"
Ch2HistCell ==
    << Stmt({"stats"}, {}, TRUE) >>                   \* print(stats.datasets[0]...rank_histogram)

\* chapter 5, 2.1 Semi-Supervised Labeling
Ch5LabelPropCell ==
    << Stmt({}, {"datasets"}, TRUE),                  \* from sklearn import datasets
       Stmt({}, {"LabelPropagation"}, TRUE),          \* from sklearn.semi_supervised import LabelPropagation
       Stmt({}, {"plt"}, TRUE),                       \* import matplotlib.pyplot as plt
       Stmt({}, {"np"}, TRUE),                        \* import numpy as np
       Stmt({"datasets"}, {"X", "y"}, TRUE),          \* X, y = datasets.make_classification(...)
       Stmt({"np"}, {"rng"}, TRUE),                   \* rng = np.random.RandomState(42)
       Stmt({"y"}, {"y_missing"}, TRUE),              \* y_missing = y.copy()
       Stmt({"rng", "y"}, {"unlabeled_indices"}, TRUE), \* unlabeled_indices = rng.rand(len(y)) < 0.8
       Stmt({"y_missing", "unlabeled_indices"}, {}, TRUE), \* y_missing[unlabeled_indices] = -1
       Stmt({"LabelPropagation"}, {"lp_model"}, TRUE), \* lp_model = LabelPropagation()
       Stmt({"lp_model", "X", "y_missing"}, {}, TRUE) >> \* lp_model.fit(X, y_missing)

\* the margin-sampling cell without its import of SVC
Ch5MarginCellNoImport ==
    << Stmt({"np", "y_missing"}, {"initial_idx"}, TRUE),
       Stmt({"SVC"}, {"model"}, TRUE),
       Stmt({"model", "X", "initial_idx", "y"}, {}, TRUE),
       Stmt({"model", "X"}, {"probs"}, TRUE),
       Stmt({"np", "probs"}, {"margins"}, TRUE),
       Stmt({"np", "margins"}, {"uncertain_idx"}, TRUE) >>

\* the margin-sampling cell naming its classifier lp_model, as the cell above does
Ch5MarginCellReusesLpModel ==
    << Stmt({}, {"SVC"}, TRUE),
       Stmt({"np", "y_missing"}, {"initial_idx"}, TRUE),
       Stmt({"SVC"}, {"lp_model"}, TRUE),
       Stmt({"lp_model", "X", "initial_idx", "y"}, {}, TRUE),
       Stmt({"lp_model", "X"}, {"probs"}, TRUE),
       Stmt({"np", "probs"}, {"margins"}, TRUE),
       Stmt({"np", "margins"}, {"uncertain_idx"}, TRUE) >>

\* chapter 5, 2.2 Active Learning, margin sampling
Ch5MarginCell ==
    << Stmt({}, {"SVC"}, TRUE),                       \* from sklearn.svm import SVC
       Stmt({"np", "y_missing"}, {"initial_idx"}, TRUE), \* initial_idx = np.where(y_missing != -1)[0][:10]
       Stmt({"SVC"}, {"model"}, TRUE),                \* model = SVC(kernel="linear", probability=True)
       Stmt({"model", "X", "initial_idx", "y"}, {}, TRUE), \* model.fit(X[initial_idx], y[initial_idx])
       Stmt({"model", "X"}, {"probs"}, TRUE),         \* probs = model.predict_proba(X)
       Stmt({"np", "probs"}, {"margins"}, TRUE),      \* margins = np.abs(probs[:, 0] - probs[:, 1])
       Stmt({"np", "margins"}, {"uncertain_idx"}, TRUE) >> \* uncertain_idx = np.argsort(margins)[:10]

\* chapter 5, 2.3 Weak Supervision with Snorkel: the bodies run only when called
Ch5SnorkelCell ==
    << Stmt({}, {"labeling_function"}, TRUE),         \* from snorkel.labeling import labeling_function
       Stmt({"labeling_function"}, {"lf_contains_my"}, TRUE),   \* @labeling_function() def lf_contains_my
       Stmt({"labeling_function"}, {"lf_short_comment"}, TRUE) >> \* @labeling_function() def lf_short_comment

\* chapter 5, 3. Data Augmentation: tf is read only when augment is called
Ch5AugmentCell ==
    << Stmt({}, {"tf"}, TRUE),                        \* import tensorflow as tf
       Stmt({}, {"augment"}, FALSE) >>                \* def augment(x, height, width, num_channels)

\* the seasonality cell plotting y_missing instead of y
Ch5SeasonCellPlotsYMissing ==
    << Stmt({"np"}, {"x"}, TRUE),
       Stmt({"np", "x"}, {"y"}, TRUE),
       Stmt({"plt", "x", "y_missing"}, {}, TRUE),
       Stmt({"plt"}, {}, TRUE),
       Stmt({"plt"}, {}, TRUE),
       Stmt({"plt"}, {}, TRUE),
       Stmt({"plt"}, {}, TRUE) >>

\* chapter 5, Seasonality Visualization
Ch5SeasonCell ==
    << Stmt({"np"}, {"x"}, TRUE),                     \* x = np.linspace(0, 10, 200)
       Stmt({"np", "x"}, {"y"}, TRUE),                \* y = 3 * np.sin(2 * np.pi * x) + 15
       Stmt({"plt", "x", "y"}, {}, TRUE),             \* plt.plot(x, y)
       Stmt({"plt"}, {}, TRUE),                       \* plt.title(...)
       Stmt({"plt"}, {}, TRUE),                       \* plt.xlabel(...)
       Stmt({"plt"}, {}, TRUE),                       \* plt.ylabel(...)
       Stmt({"plt"}, {}, TRUE) >>                     \* plt.show()

Notebooks == {"ch2", "ch5"}

\* the code cells of a notebook, top to bottom
CellsOf(n) ==
    IF n = "ch2"
    THEN << "ch2_pip", "ch2_csv", "ch2_tfrecord", "ch2_hist" >>
    ELSE << "ch5_labelprop", "ch5_margin", "ch5_snorkel", "ch5_augment", "ch5_season" >>

Stmts(c) ==
    CASE c = "ch2_pip"       -> Ch2PipCell
      [] c = "ch2_csv"       -> Ch2CsvCell
      [] c = "ch2_tfrecord"  -> Ch2TfrecordCell
      [] c = "ch2_hist"      -> Ch2HistCell
      [] c = "ch5_labelprop" -> Ch5LabelPropCell
      [] c = "ch5_margin"    -> Ch5MarginCell
      [] c = "ch5_snorkel"   -> Ch5SnorkelCell
      [] c = "ch5_augment"   -> Ch5AugmentCell
      [] c = "ch5_season"    -> Ch5SeasonCell

Range(s) == {s[i] : i \in 1..Len(s)}

Cells == Range(CellsOf("ch2")) \cup Range(CellsOf("ch5"))

Names ==
    UNION {UNION {Stmts(c)[i].reads \cup Stmts(c)[i].writes : i \in 1..Len(Stmts(c))} : c \in Cells}

\* the names the statements lo..hi of a cell bind
WritesOf(c, lo, hi) ==
    UNION {Stmts(c)[i].writes : i \in {j \in 1..Len(Stmts(c)) : lo <= j /\ j <= hi}}

(***************************************************************************)
(* One statement, on the run so far st = [ns, at, err, reads]: the names    *)
(* are looked up first (an unbound one raises NameError), then the library  *)
(* call runs (fails: it raises), and only then the targets are bound.       *)
(* There is no try/except in any cell: an exception ends the cell.          *)
(***************************************************************************)
ExecStmtBindsFirst(c, i, st, fails) ==
    LET s == Stmts(c)[i]
        bound == [n \in Names |-> IF n \in s.writes THEN c ELSE st.ns[n]]
    IN  IF \E n \in s.reads : st.ns[n] = Unbound
        THEN [st EXCEPT !.at = i, !.err = "NameError"]
        ELSE [ns |-> bound,
              at |-> IF s.raises /\ fails THEN i ELSE 0,
              err |-> IF s.raises /\ fails THEN "LibraryError" ELSE "none",
              reads |-> st.reads \cup {<<n, st.ns[n]>> : n \in s.reads}]

ExecStmt(c, i, st, fails) ==
    LET s == Stmts(c)[i]
        seen == st.reads \cup {<<n, st.ns[n]>> : n \in s.reads}
    IN  IF \E n \in s.reads : st.ns[n] = Unbound
        THEN [st EXCEPT !.at = i, !.err = "NameError"]
        ELSE IF s.raises /\ fails
        THEN [st EXCEPT !.at = i, !.err = "LibraryError", !.reads = seen]
        ELSE [st EXCEPT !.ns = [n \in Names |-> IF n \in s.writes THEN c ELSE st.ns[n]],
                        !.reads = seen]

\* the statements i.. of cell c, stopping at the first exception
RECURSIVE ExecFrom(_, _, _, _)
ExecFrom(c, i, st, failAt) ==
    IF i > Len(Stmts(c)) \/ st.err # "none"
    THEN st
    ELSE ExecFrom(c, i + 1, ExecStmt(c, i, st, i = failAt), failAt)

\* a whole cell on namespace cur; the library call of statement failAt raises (0: none does)
ExecCell(c, cur, failAt) ==
    ExecFrom(c, 1, [ns |-> cur, at |-> 0, err |-> "none", reads |-> {}], failAt)

FailPoints(c) == {0} \cup {i \in 1..Len(Stmts(c)) : Stmts(c)[i].raises}

LFIdle ==
    /\ text = <<>>
    /\ lfOut = [lf_contains_my |-> <<>>, lf_short_comment |-> <<>>]

\* a tensor of shape h x w x c: px maps <<row, column, channel>>, from 0, to a value
Tensor(h, w, c, px) == [h |-> h, w |-> w, c |-> c, px |-> px]

Coords(h, w, c) == (0..(h - 1)) \X (0..(w - 1)) \X (0..(c - 1))

NoTensor == Tensor(0, 0, 0, <<>>)

NotCalled == [status |-> "none", img |-> NoTensor, offR |-> 0, offC |-> 0, offCh |-> 0, flip |-> FALSE]

AugIdle ==
    /\ image = NoTensor
    /\ call = [height |-> 0, width |-> 0, num_channels |-> 0]
    /\ aug = NotCalled

\* the array objects of chapter 5, named by the expression that creates them
Objects == {"make_classification", "y.copy", "rand<0.8", "where[:10]", "3*sin+15"}

DataNames == {"y", "y_missing", "unlabeled_indices", "initial_idx"}

NoMem == [env |-> [n \in DataNames |-> Unbound], heap |-> [o \in Objects |-> <<>>]]

NoFit == [called |-> FALSE, idx |-> <<>>, labels |-> <<>>]

DataIdle ==
    /\ draw = <<>>
    /\ mem = NoMem
    /\ given = <<>>
    /\ fit = NoFit

Init ==
    /\ LFIdle
    /\ AugIdle
    /\ DataIdle
    /\ nb \in Notebooks
    /\ ns = [n \in Names |-> Unbound]
    /\ last = [cell |-> "none", at |-> 0, err |-> "none", reads |-> {}]
    /\ pos = 0

\* the user runs cell c (Shift+Enter), in any order, any number of times
RunCell(c, failAt) ==
    LET r == ExecCell(c, ns, failAt)
    IN  /\ ns' = r.ns
        /\ last' = [cell |-> c, at |-> r.at, err |-> r.err, reads |-> r.reads]
        /\ pos' = IF /\ pos >= 0
                     /\ pos < Len(CellsOf(nb))
                     /\ c = CellsOf(nb)[pos + 1]
                     /\ failAt = 0
                  THEN pos + 1
                  ELSE -1
        /\ UNCHANGED <<nb, lfVars, augVars, dataVars>>

Next ==
    \E c \in Range(CellsOf(nb)) : \E failAt \in FailPoints(c) : RunCell(c, failAt)

Spec == Init /\ [][Next]_vars

(***************************************************************************)
(* The claims about the kernel namespace, checked under Spec.               *)
(***************************************************************************)

\* the reads of the last cell execution that found a name bound by another cell
CrossCellReads == {<<last.cell, r[1], r[2]>> : r \in {q \in last.reads : q[2] # last.cell}}

\* <<reader, name, binder>>: the data flows between cells that the notebooks contain
CellFlows ==
    { <<"ch2_tfrecord", "tfdv", "ch2_csv">>,
      <<"ch2_hist", "stats", "ch2_csv">>,
      <<"ch2_hist", "stats", "ch2_tfrecord">>,
      <<"ch5_margin", "np", "ch5_labelprop">>,
      <<"ch5_margin", "y_missing", "ch5_labelprop">>,
      <<"ch5_margin", "X", "ch5_labelprop">>,
      <<"ch5_margin", "y", "ch5_labelprop">>,
      <<"ch5_margin", "y", "ch5_season">>,
      <<"ch5_season", "np", "ch5_labelprop">>,
      <<"ch5_season", "plt", "ch5_labelprop">> }

\* C1 as stated: a cell reads only names that the same cell bound.
C1_NoCrossCellRead == CrossCellReads = {}

\* C1, amended: every read of a name bound by another cell is one of the ten
\* flows of CellFlows, each between two cells of the same notebook; every
\* other read is of a name the reading cell bound itself.
C1_OnlyListedCellFlows ==
    /\ CrossCellReads \subseteq CellFlows
    /\ \A f \in CrossCellReads : f[1] \in Range(CellsOf(nb)) /\ f[3] \in Range(CellsOf(nb))

\* the margin-sampling cell has read the y that the seasonality cell bound
C1_Witness ==
    /\ last.cell = "ch5_margin"
    /\ last.err = "none"
    /\ <<"ch5_margin", "y", "ch5_season">> \in CrossCellReads
    /\ <<"ch5_margin", "y_missing", "ch5_labelprop">> \in CrossCellReads

\* C2 as stated: no name of the namespace is written by two different cells,
\* so a name, once bound, keeps the binding of the cell that bound it.
C2_NoNameRebound ==
    [][\A n \in Names : ns[n] # Unbound => ns'[n] = ns[n]]_vars

\* C2, amended: the namespace is shared and mutable: stats (chapter 2) and y
\* (chapter 5) are each bound by two cells, and which one a later cell reads
\* depends on the order of execution; every other name is bound by one cell
\* only, whatever the order and the number of executions.
C2_OnlyStatsAndYRebound ==
    [][\A n \in Names \ {"stats", "y"} : ns[n] # Unbound => ns'[n] = ns[n]]_vars

\* y is bound by the seasonality cell while y_missing still derives from the labels
C2_Witness ==
    /\ ns["y"] = "ch5_season"
    /\ ns["y_missing"] = "ch5_labelprop"
    /\ last.cell = "ch5_margin"
    /\ <<"y", "ch5_season">> \in last.reads

\* C3: in a fresh kernel, the cells run once each, top to bottom, every
\* library call succeeding: no cell raises NameError.
C3_TopToBottomNoNameError ==
    pos > 0 => /\ last.err = "none"
               /\ last.cell = CellsOf(nb)[pos]

\* the last cell of chapter 5 has run at the end of a top-to-bottom run
C3_Witness ==
    /\ nb = "ch5"
    /\ pos = Len(CellsOf("ch5"))
    /\ last.cell = "ch5_season"
    /\ last.err = "none"

\* C4: when a library call of a cell raises, the cell ends there: the names
\* bound by the statements before it are bound (by this cell), and the names
\* that the failing statement and the ones after it would bind are as they
\* were before the cell ran.
C4_ExceptionEndsCell ==
    [][last'.err = "LibraryError" =>
         LET c == last'.cell
             k == last'.at
             before == WritesOf(c, 1, k - 1)
             after == WritesOf(c, k, Len(Stmts(c))) \ before
         IN  /\ k \in 1..Len(Stmts(c))
             /\ \A n \in before : ns'[n] = c
             /\ \A n \in after : ns'[n] = ns[n]
             /\ \A n \in Names \ (before \cup after) : ns'[n] = ns[n]]_vars

\* model.fit has raised in the margin-sampling cell, run for the first time
C4_Witness ==
    /\ last.cell = "ch5_margin"
    /\ last.err = "LibraryError"
    /\ last.at = 4
    /\ ns["initial_idx"] = "ch5_margin"
    /\ ns["model"] = "ch5_margin"
    /\ ns["probs"] = Unbound
    /\ ns["margins"] = Unbound
    /\ ns["uncertain_idx"] = Unbound

(***************************************************************************)
(* SpecLF: the labeling functions of the Snorkel cell.  A text is a         *)
(* sequence of one-character strings.                                       *)
(***************************************************************************)
MaxTextLen == 10

Alphabet == {"m", "Y", " "}

\* str.lower() on one character
LowerChar(ch) ==
    CASE ch = "M" -> "m"
      [] ch = "Y" -> "y"
      [] OTHER -> ch

\* str.lower(): every character lower-cased, the length kept
LowerKeepsCase(s) == s

Lower(s) == [i \in 1..Len(s) |-> LowerChar(s[i])]

\* sub in s: sub occurs in s as a contiguous substring
Contains(sub, s) ==
    \E i \in 1..(Len(s) - Len(sub) + 1) : SubSeq(s, i, i + Len(sub) - 1) = sub

\* the characters str.split() with no argument splits on
IsSpace(ch) == ch \in {" ", "\t", "\n"}

\* str.split(): the maximal runs of non-whitespace characters, left to right;
\* cur is the run being read
RECURSIVE SplitFrom(_, _, _, _)
SplitFrom(s, i, cur, acc) ==
    IF i > Len(s)
    THEN IF cur = <<>> THEN acc ELSE Append(acc, cur)
    ELSE IF IsSpace(s[i])
    THEN SplitFrom(s, i + 1, <<>>, IF cur = <<>> THEN acc ELSE Append(acc, cur))
    ELSE SplitFrom(s, i + 1, Append(cur, s[i]), acc)

Split(s) == SplitFrom(s, 1, <<>>, <<>>)

\* return 1 if "my" in x.text.lower() else -1
lf_contains_my(t) == IF Contains(<<"m", "y">>, Lower(t)) THEN 1 ELSE -1

\* return 0 if len(x.text.split()) < 5 else -1
lf_short_comment(t) == IF Len(Split(t)) < 5 THEN 0 ELSE -1

KernelIdle ==
    /\ nb = "ch5"
    /\ ns = [n \in Names |-> Unbound]
    /\ last = [cell |-> "none", at |-> 0, err |-> "none", reads |-> {}]
    /\ pos = 0

Texts == UNION {[1..n -> Alphabet] : n \in 0..MaxTextLen}

InitLF ==
    /\ KernelIdle
    /\ AugIdle
    /\ DataIdle
    /\ text \in Texts
    /\ lfOut = [lf_contains_my |-> <<>>, lf_short_comment |-> <<>>]

ApplyContainsMy ==
    /\ lfOut' = [lfOut EXCEPT !.lf_contains_my = <<lf_contains_my(text)>>]
    /\ UNCHANGED <<kernelVars, augVars, dataVars, text>>

ApplyShortComment ==
    /\ lfOut' = [lfOut EXCEPT !.lf_short_comment = <<lf_short_comment(text)>>]
    /\ UNCHANGED <<kernelVars, augVars, dataVars, text>>

NextLF == ApplyContainsMy \/ ApplyShortComment

SpecLF == InitLF /\ [][NextLF]_vars

\* the positions where a whitespace-separated token of the text starts
TokenStarts ==
    {i \in 1..Len(text) : ~IsSpace(text[i]) /\ (i = 1 \/ IsSpace(text[i - 1]))}

\* an m or M directly followed by a y or Y
HasMy ==
    \E i \in 1..(Len(text) - 1) : text[i] \in {"m", "M"} /\ text[i + 1] \in {"y", "Y"}

\* C5: lf_contains_my votes 1 exactly when the text, case ignored, contains
\* "my", and abstains (-1) otherwise; lf_short_comment votes 0 exactly when
\* the text has fewer than 5 whitespace-separated tokens, and abstains (-1)
\* otherwise.
C5_LabelingFunctions ==
    /\ lfOut.lf_contains_my # <<>> =>
         /\ lfOut.lf_contains_my \in {<<1>>, <<-1>>}
         /\ lfOut.lf_contains_my = <<1>> <=> HasMy
    /\ lfOut.lf_short_comment # <<>> =>
         /\ lfOut.lf_short_comment \in {<<0>>, <<-1>>}
         /\ lfOut.lf_short_comment = <<0>> <=> Cardinality(TokenStarts) < 5

\* a text of five tokens holding "mY": one function votes 1, the other abstains
C5_Witness ==
    /\ Cardinality(TokenStarts) = 5
    /\ HasMy
    /\ ~Contains(<<"m", "y">>, text)
    /\ lfOut.lf_contains_my = <<1>>
    /\ lfOut.lf_short_comment = <<-1>>

(***************************************************************************)
(* SpecAug: augment(x, height, width, num_channels) of the CIFAR-10 cell.   *)
(* The three tf.image operations it composes are modelled by what their     *)
(* documentation states.  A pixel of the input image carries its own        *)
(* coordinates as its value, so that an output pixel tells where it came    *)
(* from; ZeroPad is the value 0 that padding writes.                        *)
(***************************************************************************)
AugPad == 8          \* height + 8, width + 8
MaxHeight == 1       \* augment is called with height in 1..MaxHeight,
MaxWidth == 2        \* width in 1..MaxWidth
MaxChannels == 2     \* and num_channels in 1..MaxChannels, on images of 1..MaxChannels channels
MaxOver == 2         \* whose height and width are up to AugPad + MaxOver
ExampleSize == 32    \* "assuming image is a 32x32x3 tensor"
ExampleChannels == 3 \* augment(image, 32, 32, 3)

ZeroPad == <<-1, -1, -1>>

Max(a, b) == IF a >= b THEN a ELSE b
Min(a, b) == IF a <= b THEN a ELSE b

\* tf.image.crop_to_bounding_box: the window of th x tw at (oh, ow)
crop_to_bounding_box(x, oh, ow, th, tw) ==
    Tensor(th, tw, x.c, [p \in Coords(th, tw, x.c) |-> x.px[<<p[1] + oh, p[2] + ow, p[3]>>]])

\* tf.image.pad_to_bounding_box: x placed at (oh, ow) in th x tw zeros
pad_to_bounding_box(x, oh, ow, th, tw) ==
    Tensor(th, tw, x.c,
           [p \in Coords(th, tw, x.c) |->
               IF /\ oh <= p[1] /\ p[1] < oh + x.h
                  /\ ow <= p[2] /\ p[2] < ow + x.w
               THEN x.px[<<p[1] - oh, p[2] - ow, p[3]>>]
               ELSE ZeroPad])

\* resizing that keeps the input's own size
resize_keeps_size(x, th, tw) == x

\* tf.image.resize_with_crop_or_pad: centrally crops and/or zero-pads to th x tw
resize_with_crop_or_pad(x, th, tw) ==
    LET cropped == crop_to_bounding_box(x, Max((x.h - th) \div 2, 0), Max((x.w - tw) \div 2, 0),
                                        Min(th, x.h), Min(tw, x.w))
    IN  pad_to_bounding_box(cropped, Max((th - x.h) \div 2, 0), Max((tw - x.w) \div 2, 0), th, tw)

\* tf.image.random_crop(x, size) at the offset it drew: requires x.shape >= size
random_crop(x, size, off) ==
    Tensor(size[1], size[2], size[3],
           [p \in Coords(size[1], size[2], size[3]) |->
               x.px[<<p[1] + off[1], p[2] + off[2], p[3] + off[3]>>]])

\* tf.image.flip_left_right, which random_flip_left_right applies or not
flip_left_right(x) ==
    Tensor(x.h, x.w, x.c, [p \in Coords(x.h, x.w, x.c) |-> x.px[<<p[1], x.w - 1 - p[2], p[3]>>]])

\* the image of shape h x w x c whose pixels carry their coordinates
SourceImage(h, w, c) == Tensor(h, w, c, [p \in Coords(h, w, c) |-> p])

InDims == (1..MaxWidth) \cup {AugPad + k : k \in 0..MaxOver}

InitAug ==
    /\ KernelIdle
    /\ LFIdle
    /\ DataIdle
    /\ \/ /\ \E h \in InDims, w \in InDims, c \in 1..MaxChannels : image = SourceImage(h, w, c)
          /\ call \in [height : 1..MaxHeight, width : 1..MaxWidth, num_channels : 1..MaxChannels]
       \/ /\ image = SourceImage(ExampleSize, ExampleSize, ExampleChannels)
          /\ call = [height |-> ExampleSize, width |-> ExampleSize, num_channels |-> ExampleChannels]
    /\ aug = NotCalled

\* image_aug = augment(image, height, width, num_channels), called once
Augment ==
    LET x1 == resize_with_crop_or_pad(image, call.height + AugPad, call.width + AugPad)
        size == <<call.height, call.width, call.num_channels>>
    IN  /\ aug.status = "none"
        /\ IF x1.h < size[1] \/ x1.w < size[2] \/ x1.c < size[3]
           THEN aug' = [NotCalled EXCEPT !.status = "error"]
           ELSE \E offR \in 0..(x1.h - size[1]), offC \in 0..(x1.w - size[2]),
                   offCh \in 0..(x1.c - size[3]), flip \in BOOLEAN :
                    LET x2 == random_crop(x1, size, <<offR, offC, offCh>>)
                        x3 == IF flip THEN flip_left_right(x2) ELSE x2
                    IN  aug' = [status |-> "ok", img |-> x3, offR |-> offR, offC |-> offC,
                                offCh |-> offCh, flip |-> flip]
        /\ UNCHANGED <<kernelVars, lfVars, dataVars, image, call>>

NextAug == Augment

SpecAug == InitAug /\ [][NextAug]_vars

\* C6: on an image of num_channels channels, whatever its height and width,
\* augment returns an image of shape height x width x num_channels, cut at a
\* row offset and a column offset in 0..8, and every pixel of it is a pixel
\* of the input or zero padding.
C6_AugmentShape ==
    (aug.status # "none" /\ image.c = call.num_channels) =>
        /\ aug.status = "ok"
        /\ aug.img.h = call.height /\ aug.img.w = call.width /\ aug.img.c = call.num_channels
        /\ DOMAIN aug.img.px = Coords(call.height, call.width, call.num_channels)
        /\ aug.offR \in 0..AugPad /\ aug.offC \in 0..AugPad
        /\ \A p \in DOMAIN aug.img.px :
             \/ aug.img.px[p] = ZeroPad
             \/ aug.img.px[p] \in DOMAIN image.px /\ aug.img.px[p][3] = p[3]

\* the example call on a 32x32x3 image, mirrored, cut at the lower right corner
\* of the padded image: the result holds input pixels and padding
C6_Witness ==
    /\ image.h = ExampleSize /\ image.w = ExampleSize /\ image.c = ExampleChannels
    /\ aug.status = "ok"
    /\ aug.flip
    /\ aug.offR = AugPad /\ aug.offC = AugPad
    /\ aug.img.h = ExampleSize /\ aug.img.w = ExampleSize /\ aug.img.c = ExampleChannels
    /\ aug.img.px[<<0, 0, 0>>] = ZeroPad
    /\ aug.img.px[<<0, ExampleSize - 1, 0>>] = <<AugPad \div 2, AugPad \div 2, 0>>

(***************************************************************************)
(* SpecData: the label arrays of the semi-supervised cell, the margin       *)
(* sampling cell and the seasonality cell.  A numpy array is a function on  *)
(* 0..n-1; a name refers to an array object, and two names may refer to the *)
(* same object.  n_samples=200 and linspace(0, 10, 200) are scaled down to  *)
(* NSamples.  rng is seeded with 42 every time the cell runs, so            *)
(* rng.rand(len(y)) yields the same numbers in every execution: draw is     *)
(* chosen once.                                                             *)
(***************************************************************************)
NSamples == 11       \* len(y)
InitialLabels == 10  \* [:10]
MaxRun == 1          \* label arrays alternate between the classes in runs of 1..MaxRun

Size(a) == Cardinality(DOMAIN a)

Push(a, v) == [j \in 0..Size(a) |-> IF j < Size(a) THEN a[j] ELSE v]

\* what name refers to
Deref(m, name) == m.heap[m.env[name]]

\* name = <a new array made by the expression obj, with elements a>
BindNew(m, name, obj, a) ==
    [env |-> [m.env EXCEPT ![name] = obj], heap |-> [m.heap EXCEPT ![obj] = a]]

\* dst = src: the two names refer to one array
BindSame(m, dst, src) == [m EXCEPT !.env[dst] = m.env[src]]

\* dst = src.copy(): a new array with the elements of src
BindCopy(m, dst, src) == BindNew(m, dst, "y.copy", Deref(m, src))

\* name[mask] = v: in place, on the array name refers to
MaskAssign(m, name, mask, v) ==
    [m EXCEPT !.heap[m.env[name]] =
        [i \in DOMAIN Deref(m, name) |-> IF Deref(m, mask)[i] THEN v ELSE Deref(m, name)[i]]]

\* np.where(cond)[0]: the indices i with cond[i], ascending
RECURSIVE WhereFrom(_, _, _)
WhereFrom(cond, i, acc) ==
    IF i >= Size(cond)
    THEN acc
    ELSE WhereFrom(cond, i + 1, IF cond[i] THEN Push(acc, i) ELSE acc)

Where(cond) == WhereFrom(cond, 0, <<>>)

\* a[:k]
FirstK(a, k) == [j \in 0..(Min(k, Size(a)) - 1) |-> a[j]]

\* a[idx], idx an array of indices: a new array
Take(a, idx) == [j \in DOMAIN idx |-> a[idx[j]]]

\* np.where(y_missing != -1)[0] without the [:10]
InitialIdxUnsliced(ym) == Where([i \in DOMAIN ym |-> ym[i] # -1])

\* np.where(y_missing != -1)[0][:10]
InitialIdx(ym) == FirstK(Where([i \in DOMAIN ym |-> ym[i] # -1]), InitialLabels)

\* the labels make_classification(n_classes=2) may return: 0s and 1s
LabelArrays ==
    {[i \in 0..(NSamples - 1) |-> ((i \div k) + j) % 2] : k \in 1..MaxRun, j \in 0..1}

\* 3 * np.sin(2 * np.pi * x) + 15 on x = np.linspace(0, 10, n): between 12 and
\* 18; the model samples the sine at quarter periods
Seasonal == [i \in 0..(NSamples - 1) |-> 15 + 3 * (CASE i % 4 = 1 -> 1 [] i % 4 = 3 -> -1 [] OTHER -> 0)]

InitData ==
    /\ KernelIdle
    /\ LFIdle
    /\ AugIdle
    /\ draw \in [0..(NSamples - 1) -> BOOLEAN]
    /\ mem = NoMem
    /\ given = <<>>
    /\ fit = NoFit

\* X, y = make_classification(...); y_missing = y.copy();
\* unlabeled_indices = rng.rand(len(y)) < 0.8; y_missing[unlabeled_indices] = -1
LabelPropagationCell(labels) ==
    LET m1 == BindNew(mem, "y", "make_classification", labels)
        m2 == BindCopy(m1, "y_missing", "y")
        m3 == BindNew(m2, "unlabeled_indices", "rand<0.8", [i \in 0..(Size(Deref(m2, "y")) - 1) |-> draw[i]])
        m4 == MaskAssign(m3, "y_missing", "unlabeled_indices", -1)
    IN  /\ mem' = m4
        /\ given' = labels
        /\ UNCHANGED <<kernelVars, lfVars, augVars, draw, fit>>

\* initial_idx = np.where(y_missing != -1)[0][:10]; model.fit(X[initial_idx], y[initial_idx])
MarginSamplingCell ==
    /\ mem.env["y_missing"] # Unbound
    /\ mem.env["y"] # Unbound
    /\ LET m1 == BindNew(mem, "initial_idx", "where[:10]", InitialIdx(Deref(mem, "y_missing")))
       IN  /\ mem' = m1
           /\ fit' = [called |-> TRUE,
                      idx |-> Deref(m1, "initial_idx"),
                      labels |-> Take(Deref(m1, "y"), Deref(m1, "initial_idx"))]
    /\ UNCHANGED <<kernelVars, lfVars, augVars, draw, given>>

\* x = np.linspace(0, 10, 200); y = 3 * np.sin(2 * np.pi * x) + 15; np is bound
\* by the semi-supervised cell
SeasonalityCell ==
    /\ mem.env["y_missing"] # Unbound
    /\ mem' = BindNew(mem, "y", "3*sin+15", Seasonal)
    /\ UNCHANGED <<kernelVars, lfVars, augVars, draw, given, fit>>

NextData ==
    \/ \E labels \in LabelArrays : LabelPropagationCell(labels)
    \/ MarginSamplingCell
    \/ SeasonalityCell

SpecData == InitData /\ [][NextData]_vars

\* C8: after the unlabeling step y_missing is a separate array as long as y,
\* -1 where the index was drawn as unlabeled and the given label elsewhere,
\* and the array of given labels is unchanged.
C8_UnlabelOnCopy ==
    mem.env["y_missing"] # Unbound =>
        /\ DOMAIN Deref(mem, "y_missing") = DOMAIN given
        /\ Deref(mem, "unlabeled_indices") = draw
        /\ \A i \in DOMAIN given :
             Deref(mem, "y_missing")[i] = IF draw[i] THEN -1 ELSE given[i]
        /\ mem.heap["make_classification"] = given
        /\ mem.env["y"] = "make_classification" => Deref(mem, "y") = given

\* some labels were removed, some kept, and y still holds them all
C8_Witness ==
    /\ mem.env["y"] = "make_classification"
    /\ mem.env["y_missing"] = "y.copy"
    /\ \E i \in DOMAIN given : draw[i] /\ given[i] = 1 /\ Deref(mem, "y_missing")[i] = -1
                                /\ Deref(mem, "y")[i] = 1
    /\ \E i \in DOMAIN given : ~draw[i] /\ Deref(mem, "y_missing")[i] = 1

\* C9: initial_idx holds at most 10 indices, ascending without repetition,
\* which are the lowest-numbered indices whose label was kept; the model is
\* fitted on these indices only, so on no index whose label was removed.
C9_FitOnInitialLabels ==
    mem.env["initial_idx"] # Unbound =>
        LET idx == Deref(mem, "initial_idx")
            ym == Deref(mem, "y_missing")
            kept == {i \in DOMAIN ym : ym[i] # -1}
        IN  /\ Size(idx) <= InitialLabels
            /\ Size(idx) = Min(InitialLabels, Cardinality(kept))
            /\ \A j \in DOMAIN idx : idx[j] \in kept
            /\ \A j, k \in DOMAIN idx : j < k => idx[j] < idx[k]
            /\ \A i \in kept : \A j \in DOMAIN idx : i < idx[j] => \E k \in DOMAIN idx : idx[k] = i
            /\ fit.called /\ fit.idx = idx
            /\ \A j \in DOMAIN fit.idx : ~draw[fit.idx[j]]

\* more than 10 labels were kept: the fit uses the first 10 of them and leaves
\* out a later index whose label was kept as well
C9_Witness ==
    /\ fit.called
    /\ Size(fit.idx) = InitialLabels
    /\ Cardinality({i \in DOMAIN draw : ~draw[i]}) > InitialLabels
    /\ \E i \in DOMAIN draw : ~draw[i] /\ \A j \in DOMAIN fit.idx : fit.idx[j] # i
    /\ fit.idx = Deref(mem, "initial_idx")

====
